---------------------------- MODULE Spec2Model ----------------------------
(***************************************************************************)
(* A model of the personal-blog repository:                                *)
(*   - scripts/sync-posts-to-docusaurus.mjs : the content sync batch job   *)
(*   - static-site/src/theme/Root.tsx       : the page-view shim           *)
(*                                                                         *)
(* Three specifications share the module:                                  *)
(*   Spec        the sync job run repeatedly over hand-edited content      *)
(*   SpecShim    the page-view effect over navigation events               *)
(*   SpecRewrite the pure function rewriteAssetPaths over bounded bodies   *)
(***************************************************************************)
EXTENDS Integers, Sequences, FiniteSets, TLC

VARIABLES
    \* ---- content sync ----
    content,    \* canonical content: content/posts and its post folders
    out,        \* generated output: static-site/blog and static-site/static/posts
    exitCode,   \* process.exitCode of the last sync run
    reported,   \* success lines the last run printed (the post counts)
    errors,     \* number of errors the last run printed to the error stream
    runs,       \* history: number of sync runs so far
    edits,      \* history: number of content edits so far
    ranOn,      \* history: the content the last run read
    before,     \* history: the output as it was when the last run started
    prevExit,   \* history: exit code of the run before the last one
    prevRanOn,  \* history: the content the run before the last one read
    \* ---- page-view shim ----
    pathname,     \* location.pathname
    lastPathRef,  \* lastPathRef.current
    tracker,      \* whether window.__trackPageView is defined
    title,        \* document.title
    calls,        \* invocations of window.__trackPageView: <<path, title>>
    callEvent,    \* history: for each call, the index of the event that made it
    events,       \* history: the effect runs of this mount
    threw,        \* whether the effect raised an error
    \* ---- rewriteAssetPaths ----
    rwBody, rwSlug, rwOut, rwDone,
    \* ---- site configuration ----
    procEnv,       \* process.env
    envFile,       \* static-site/.env
    envLocalFile,  \* static-site/.env.local
    headTags,      \* config.headTags
    cfgDone        \* whether the configuration module has been evaluated

syncVars == <<content, out, exitCode, reported, errors, runs, edits, ranOn,
              before, prevExit, prevRanOn>>
shimVars == <<pathname, lastPathRef, tracker, title, calls, callEvent, events, threw>>
rwVars   == <<rwBody, rwSlug, rwOut, rwDone>>
cfgVars  == <<procEnv, envFile, envLocalFile, headTags, cfgDone>>
vars     == <<syncVars, shimVars, rwVars, cfgVars>>

(***************************************************************************)
(* Bounds                                                                  *)
(***************************************************************************)
MaxRuns == 3
MaxEdits == 2
MaxEvents == 5
MaxLen == 4

(***************************************************************************)
(* Strings.  A markdown body is a sequence of tokens; every token is a     *)
(* tuple of strings so that tokens of any kind compare.  <<"./assets/">>   *)
(* is the nine characters of the relative-asset prefix; the other tokens   *)
(* are single characters that are not part of that prefix.                 *)
(***************************************************************************)
AssetsPrefix == <<"./assets/">>
Whitespace == { <<" ">>, <<"\n">> }
IsSpace(tok) == tok \in Whitespace

\* `/posts/${slug}/`
PostsPrefix(slug) == <<"/posts/", slug, "/">>

\* Index of the last token of the maximal run of non-whitespace tokens that
\* starts at i (the greedy \S+), given that markdown[i] is not whitespace.
RECURSIVE RunEnd(_, _)
RunEnd(markdown, i) ==
    IF i < Len(markdown) /\ ~IsSpace(markdown[i + 1])
    THEN RunEnd(markdown, i + 1)
    ELSE i

\* String.prototype.replace with the global regexp /\.\/assets\/(\S+)/g,
\* scanning from token i: the leftmost match is replaced and the scan goes on
\* after the end of the match.
RECURSIVE ReplaceFrom(_, _, _)
ReplaceFrom(markdown, i, slug) ==
    IF i > Len(markdown) THEN <<>>
    ELSE IF /\ markdown[i] = AssetsPrefix
            /\ i < Len(markdown)
            /\ ~IsSpace(markdown[i + 1])
         THEN LET j == RunEnd(markdown, i + 1)
              IN  <<PostsPrefix(slug)>> \o SubSeq(markdown, i + 1, j)
                     \o ReplaceFrom(markdown, j + 1, slug)
         ELSE <<markdown[i]>> \o ReplaceFrom(markdown, i + 1, slug)

RewriteAssetPaths(markdown, slug) == ReplaceFrom(markdown, 1, slug)

(***************************************************************************)
(* Dates are sequences of characters, so that the pattern is checked       *)
(* character by character.                                                 *)
(***************************************************************************)
Digits == {"0", "1", "2", "3", "4", "5", "6", "7", "8", "9"}

\* /^\d{4}-\d{2}-\d{2}$/
IsValidDate(dateString) ==
    /\ Len(dateString) = 10
    /\ \A i \in {1, 2, 3, 4, 6, 7, 9, 10} : dateString[i] \in Digits
    /\ dateString[5] = "-"
    /\ dateString[8] = "-"

\* `"${value}"` for a string, `[...]` of quoted items for an array.  (The
\* escaping of an inner quote has nothing to act on: no string of the model
\* holds one.)
ToYamlValue(value) ==
    IF value.isArray
    THEN <<"[", [i \in 1..Len(value.items) |-> <<"\"", value.items[i], "\"">>], "]">>
    ELSE <<"\"", value.str, "\"">>

Str(s) == [isArray |-> FALSE, str |-> s, items |-> <<>>]
Arr(a) == [isArray |-> TRUE, str |-> "", items |-> a]

\* The frontmatter block: the keys title, slug, date, tags in that order.
BuildFrontmatter(meta) ==
    << <<"---">>,
       <<"title", ToYamlValue(Str(meta.title))>>,
       <<"slug", ToYamlValue(Str(meta.slug))>>,
       <<"date", ToYamlValue(Str(meta.date))>>,
       <<"tags", ToYamlValue(Arr(meta.tags.items))>>,
       <<"---">>, <<"">> >>

(***************************************************************************)
(* The file system.  A directory is [present, files, dirs]: files maps a   *)
(* name to the file's contents, dirs maps a name to a directory.  Every    *)
(* operation returns [err, node]: whether it raised, and the directory     *)
(* afterwards.                                                             *)
(***************************************************************************)
NoEntries == <<>>
Absent == [present |-> FALSE, files |-> NoEntries, dirs |-> NoEntries]
EmptyDir == [present |-> TRUE, files |-> NoEntries, dirs |-> NoEntries]

Ok(node) == [err |-> FALSE, node |-> node]
Raise(node) == [err |-> TRUE, node |-> node]

\* The function f without the key k.
Without(f, k) == [x \in (DOMAIN f) \ {k} |-> f[x]]

\* mkdir without {recursive: true}: EEXIST when the directory is there.
EnsureDirNotRecursive(dir) ==
    IF dir.present THEN Raise(dir) ELSE Ok(EmptyDir)

\* fs.mkdir(dir, {recursive: true}): no error when the directory exists.
EnsureDir(dir) ==
    IF dir.present THEN Ok(dir) ELSE Ok(EmptyDir)

\* cleanDirectory that only ensures the directory: what is in it stays.
CleanDirectoryNoRemove(dir) == EnsureDir(dir)

\* fs.rm(dir, {recursive: true, force: true}): gone, whatever was there.
Rm(dir) == Absent

\* fs.rm(dir, {recursive: true, force: true}) then ensureDir(dir)
CleanDirectory(dir) == EnsureDir(Rm(dir))

\* The directory `name` of `root`, Absent when there is none.
Slot(root, name) ==
    IF root.present /\ name \in DOMAIN root.dirs THEN root.dirs[name] ELSE Absent

\* `root` with its directory `name` set to `node` (made with its parents).
PutSlot(root, name, node) ==
    IF node.present
    THEN [present |-> TRUE,
          files |-> root.files,
          dirs |-> (name :> node) @@ root.dirs]
    ELSE [root EXCEPT !.dirs = Without(root.dirs, name)]

\* fs.writeFile(path.join(dir, name), data): ENOENT when dir is absent.
WriteFile(dir, name, data) ==
    IF ~dir.present THEN Raise(dir)
    ELSE Ok([dir EXCEPT !.files = (name :> data) @@ dir.files])

\* copyDirectory that copies the files of the top directory only.
CopyDirectoryShallow(sourceDir, targetDir) ==
    IF ~sourceDir.present THEN Raise(targetDir)
    ELSE Ok([present |-> TRUE,
             files |-> sourceDir.files @@ EnsureDir(targetDir).node.files,
             dirs |-> EnsureDir(targetDir).node.dirs])

\* copyDirectory: readdir(sourceDir) raises when it is absent, before the
\* target is made; files overwrite, directories are copied recursively.  A
\* name that is a file on one side and a directory on the other raises (the
\* entries copied before it depend on readdir's order; sync never gets there,
\* its target being freshly cleaned).
RECURSIVE CopyDirectory(_, _)
CopyDirectory(sourceDir, targetDir) ==
    IF ~sourceDir.present THEN Raise(targetDir)
    ELSE LET made == EnsureDir(targetDir)
             t == made.node
             clash == \/ \E n \in DOMAIN sourceDir.files : n \in DOMAIN t.dirs
                      \/ \E n \in DOMAIN sourceDir.dirs : n \in DOMAIN t.files
             sub(n) == CopyDirectory(sourceDir.dirs[n], Slot(t, n))
         IN  IF made.err THEN made
             ELSE IF clash \/ \E n \in DOMAIN sourceDir.dirs : sub(n).err
             THEN Raise(t)
             ELSE Ok([present |-> TRUE,
                      files |-> sourceDir.files @@ t.files,
                      dirs |-> [n \in (DOMAIN sourceDir.dirs) \cup (DOMAIN t.dirs) |->
                                  IF n \in DOMAIN sourceDir.dirs
                                  THEN sub(n).node ELSE t.dirs[n]]])


(***************************************************************************)
(* Canonical content: content/posts/<folder>/{meta.json, README.md,        *)
(* assets/}.  A field of meta.json that is missing or empty is "" (falsy   *)
(* in the code's test); a date is <<>> when missing.                       *)
(***************************************************************************)
Folders == {"p1", "p2"}
\* The order in which readdir lists the post folders: the same on every run
\* while the folders are the same.
FolderOrder == <<"p1", "p2">>

DateOk == <<"2", "0", "2", "6", "-", "0", "2", "-", "0", "9">>
DateOther == <<"2", "0", "2", "6", "-", "0", "2", "-", "1", "0">>
DateBad == <<"2", "0", "2", "6", "-", "2", "-", "9">>
DateNone == <<>>
Dates == {DateOk, DateOther, DateBad, DateNone}

Slugs == {"s1", "s2"}
Titles == {"", "Post"}
Statuses == {"published", "draft"}
MetaFiles == {"ok", "missing", "malformed"}

BodyPlain == << <<"x">> >>
BodyWithAsset == << <<"!">>, AssetsPrefix, <<"x">>, <<" ">>, <<"x">> >>
Bodies == {BodyPlain, BodyWithAsset}

File(name, data) == [present |-> TRUE, files |-> (name :> data), dirs |-> NoEntries]
AssetsOne == File("diagram.png", "v1")
AssetsRenamed == File("chart.png", "v1")
AssetsNested == [present |-> TRUE,
                 files |-> ("diagram.png" :> "v2"),
                 dirs |-> ("img" :> File("chart.png", "v1"))]
AssetDirs == {Absent, EmptyDir, AssetsOne, AssetsRenamed, AssetsNested}

Post(status, slug, assets) ==
    [present |-> TRUE, metaFile |-> "ok",
     meta |-> [status |-> status, title |-> "Post", slug |-> slug,
               date |-> DateOk, tags |-> [isArray |-> TRUE, items |-> <<"notes">>]],
     readme |-> [present |-> TRUE, body |-> BodyWithAsset],
     assets |-> assets]

\* What one hand edit of a post folder can make of it: one thing changed.
PostVariants(p) ==
    ({[p EXCEPT !.present = b] : b \in BOOLEAN}
     \cup {[p EXCEPT !.metaFile = m] : m \in MetaFiles}
     \cup {[p EXCEPT !.meta.status = s] : s \in Statuses}
     \cup {[p EXCEPT !.meta.title = t] : t \in Titles}
     \cup {[p EXCEPT !.meta.slug = s] : s \in Slugs \cup {""}}
     \cup {[p EXCEPT !.meta.date = d] : d \in Dates}
     \cup {[p EXCEPT !.meta.tags.isArray = b] : b \in BOOLEAN}
     \cup {[p EXCEPT !.readme.present = b] : b \in BOOLEAN}
     \cup {[p EXCEPT !.readme.body = b] : b \in Bodies}
     \cup {[p EXCEPT !.assets = a] : a \in AssetDirs}) \ {p}

\* The names readdir(postsRoot) lists that are directories, in its order.
PostDirs(c) == SelectSeq(FolderOrder, LAMBDA f : c.posts[f].present)

\* !meta.title || !meta.slug || !meta.date || !Array.isArray(meta.tags)
MissingFields(meta) ==
    \/ meta.title = ""
    \/ meta.slug = ""
    \/ meta.date = DateNone
    \/ ~meta.tags.isArray

\* The loop of readPublishedPosts over postDirs: [err, posts].
\* A read loop that validates a post before it looks at its status.
RECURSIVE ReadPostsValidateFirst(_, _, _)
ReadPostsValidateFirst(c, postDirs, posts) ==
    IF postDirs = <<>> THEN [err |-> FALSE, posts |-> posts]
    ELSE LET p == c.posts[Head(postDirs)]
         IN  IF p.metaFile # "ok" THEN [err |-> TRUE, posts |-> posts]
             ELSE IF MissingFields(p.meta) THEN [err |-> TRUE, posts |-> posts]
             ELSE IF ~IsValidDate(p.meta.date) THEN [err |-> TRUE, posts |-> posts]
             ELSE IF ~p.readme.present THEN [err |-> TRUE, posts |-> posts]
             ELSE IF p.meta.status # "published"
             THEN ReadPostsValidateFirst(c, Tail(postDirs), posts)
             ELSE ReadPostsValidateFirst(c, Tail(postDirs),
                                         Append(posts, [assetsDir |-> p.assets,
                                                        meta |-> p.meta,
                                                        readme |-> p.readme.body]))

RECURSIVE ReadPosts(_, _, _)
ReadPosts(c, postDirs, posts) ==
    IF postDirs = <<>> THEN [err |-> FALSE, posts |-> posts]
    ELSE LET p == c.posts[Head(postDirs)]
         IN  IF p.metaFile # "ok" THEN [err |-> TRUE, posts |-> posts]
             ELSE IF p.meta.status # "published"
             THEN ReadPosts(c, Tail(postDirs), posts)
             ELSE IF MissingFields(p.meta) THEN [err |-> TRUE, posts |-> posts]
             ELSE IF ~IsValidDate(p.meta.date) THEN [err |-> TRUE, posts |-> posts]
             ELSE IF ~p.readme.present THEN [err |-> TRUE, posts |-> posts]
             ELSE ReadPosts(c, Tail(postDirs),
                            Append(posts, [assetsDir |-> p.assets,
                                           meta |-> p.meta,
                                           readme |-> p.readme.body]))

\* readPublishedPosts that rethrows the ENOENT of an absent posts root.
ReadPublishedPostsRethrows(c) ==
    IF ~c.root THEN [err |-> TRUE, posts |-> <<>>]
    ELSE ReadPosts(c, PostDirs(c), <<>>)

\* readPublishedPosts: an absent posts root is no posts, not an error.
ReadPublishedPosts(c) ==
    IF ~c.root THEN [err |-> FALSE, posts |-> <<>>]
    ELSE ReadPosts(c, PostDirs(c), <<>>)

\* `${meta.date}-${meta.slug}.md`
Filename(meta) == <<meta.date, "-", meta.slug, ".md">>

\* `${frontmatter}${rewritten}\n`
BlogFile(meta, readme) ==
    <<BuildFrontmatter(meta), RewriteAssetPaths(readme, meta.slug), <<"\n">> >>

\* One post of sync's write loop: the blog file, then the slug's asset
\* directory cleaned and copied.
SyncPost(post, o) ==
    LET written == WriteFile(o.blog, Filename(post.meta),
                             BlogFile(post.meta, post.readme))
        o1 == [o EXCEPT !.blog = written.node]
        cleaned == CleanDirectory(Slot(o1.static, post.meta.slug))
        o2 == [o1 EXCEPT !.static = PutSlot(o1.static, post.meta.slug, cleaned.node)]
        copied == CopyDirectory(post.assetsDir, cleaned.node)
        o3 == [o2 EXCEPT !.static = PutSlot(o2.static, post.meta.slug, copied.node)]
    IN  IF written.err THEN [err |-> TRUE, out |-> o]
        ELSE IF cleaned.err THEN [err |-> TRUE, out |-> o1]
        ELSE IF copied.err THEN [err |-> TRUE, out |-> o2]
        ELSE [err |-> FALSE, out |-> o3]

\* A write loop that goes on to the next post after an error.
RECURSIVE SyncLoopKeepsGoing(_, _)
SyncLoopKeepsGoing(posts, o) ==
    IF posts = <<>> THEN [err |-> FALSE, out |-> o]
    ELSE LET done == SyncPost(Head(posts), o)
             rest == SyncLoopKeepsGoing(Tail(posts), done.out)
         IN  [err |-> done.err \/ rest.err, out |-> rest.out]

\* sync's write loop over the posts read: it stops at the first error.
RECURSIVE SyncLoop(_, _)
SyncLoop(posts, o) ==
    IF posts = <<>> THEN [err |-> FALSE, out |-> o]
    ELSE LET done == SyncPost(Head(posts), o)
         IN  IF done.err THEN done ELSE SyncLoop(Tail(posts), done.out)

\* A sync that writes each post as soon as it has read and validated it,
\* instead of reading them all first.
RECURSIVE SyncEach(_, _, _, _)
SyncEach(c, postDirs, o, count) ==
    IF postDirs = <<>> THEN [err |-> FALSE, out |-> o, count |-> count]
    ELSE LET one == ReadPosts(c, <<Head(postDirs)>>, <<>>)
             done == SyncLoop(one.posts, o)
         IN  IF one.err THEN [err |-> TRUE, out |-> o, count |-> 0]
             ELSE IF done.err THEN [err |-> TRUE, out |-> done.out, count |-> 0]
             ELSE SyncEach(c, Tail(postDirs), done.out, count + Len(one.posts))

SyncWritesWhileReading(c, o) ==
    LET blog == CleanDirectory(o.blog)
        static == EnsureDir(o.static)
    IN  SyncEach(c, IF c.root THEN PostDirs(c) ELSE <<>>,
                 [blog |-> blog.node, static |-> static.node], 0)

\* sync(): [err, out, count].
Sync(c, o) ==
    LET blog == CleanDirectory(o.blog)
        o1 == [o EXCEPT !.blog = blog.node]
        static == EnsureDir(o1.static)
        o2 == [o1 EXCEPT !.static = static.node]
        read == ReadPublishedPosts(c)
        looped == SyncLoop(read.posts, o2)
    IN  IF blog.err THEN [err |-> TRUE, out |-> o, count |-> 0]
        ELSE IF static.err THEN [err |-> TRUE, out |-> o1, count |-> 0]
        ELSE IF read.err THEN [err |-> TRUE, out |-> o2, count |-> 0]
        ELSE [err |-> looped.err, out |-> looped.out, count |-> Len(read.posts)]

\* The exit code when the catch handler is left out.
ExitCodeNoCatch(rejected) == 0

\* sync().catch(...): process.exitCode = 1 when sync rejects, else the default.
ExitCode(rejected) == IF rejected THEN 1 ELSE 0

\* console.log of the count, last statement of sync: only when nothing raised.
Report(result) == IF result.err THEN <<>> ELSE <<result.count>>

(***************************************************************************)
(* Specification of the sync job                                           *)
(***************************************************************************)
FreshOut == [blog |-> Absent, static |-> Absent]
InitContent ==
    [root |-> TRUE,
     posts |-> ("p1" :> Post("published", "s1", AssetsOne)
                @@ "p2" :> Post("draft", "s2", AssetsNested))]
\* The content an earlier run was made over: both posts published.
EarlierContent ==
    [root |-> TRUE,
     posts |-> ("p1" :> Post("published", "s1", AssetsNested)
                @@ "p2" :> Post("published", "s2", AssetsOne))]
\* What the output directories hold before the first run of a behaviour:
\* nothing (a fresh checkout) or what a run over earlier content left.
PriorOutputs == {FreshOut, Sync(EarlierContent, FreshOut).out}

ShimIdle ==
    /\ pathname = "" /\ lastPathRef = "" /\ tracker = FALSE /\ title = ""
    /\ calls = <<>> /\ callEvent = <<>> /\ events = <<>> /\ threw = FALSE
RewriteIdle ==
    /\ rwBody = <<>> /\ rwSlug = "" /\ rwOut = <<>> /\ rwDone = FALSE

\* Environment variables: [defined, value], the value a sequence of characters.
EnvKeys == {"MIXPANEL_TOKEN", "OTHER"}
Undefined == [defined |-> FALSE, value |-> <<>>]
Defined(v) == [defined |-> TRUE, value |-> v]
NoEnv == [k \in EnvKeys |-> Undefined]
NoFile == [present |-> FALSE, lines |-> <<>>]
ConfigIdle ==
    /\ procEnv = NoEnv /\ envFile = NoFile /\ envLocalFile = NoFile
    /\ headTags = <<>> /\ cfgDone = FALSE

Init ==
    /\ content = InitContent
    /\ out \in PriorOutputs
    /\ exitCode = 0 /\ reported = <<>> /\ errors = 0
    /\ runs = 0 /\ edits = 0
    /\ ranOn = InitContent /\ before = out
    /\ prevExit = 0 /\ prevRanOn = InitContent
    /\ ShimIdle /\ RewriteIdle /\ ConfigIdle

\* The author edits one post folder by hand.
EditPost ==
    /\ edits < MaxEdits
    /\ \E f \in Folders : \E p \in PostVariants(content.posts[f]) :
          content' = [content EXCEPT !.posts[f] = p]
    /\ edits' = edits + 1
    /\ UNCHANGED <<out, exitCode, reported, errors, runs, ranOn, before,
                   prevExit, prevRanOn>>
    /\ UNCHANGED <<shimVars, rwVars, cfgVars>>

\* The author removes or restores the posts root.
MovePostsRoot ==
    /\ edits < MaxEdits
    /\ content' = [content EXCEPT !.root = ~content.root]
    /\ edits' = edits + 1
    /\ UNCHANGED <<out, exitCode, reported, errors, runs, ranOn, before,
                   prevExit, prevRanOn>>
    /\ UNCHANGED <<shimVars, rwVars, cfgVars>>

\* One run of the script: `npm run sync`.
RunSync ==
    /\ runs < MaxRuns
    /\ LET result == Sync(content, out)
       IN  /\ out' = result.out
           /\ exitCode' = ExitCode(result.err)
           /\ reported' = Report(result)
           /\ errors' = IF result.err THEN 1 ELSE 0
    /\ runs' = runs + 1
    /\ ranOn' = content
    /\ before' = out
    /\ prevExit' = exitCode
    /\ prevRanOn' = ranOn
    /\ UNCHANGED <<content, edits>>
    /\ UNCHANGED <<shimVars, rwVars, cfgVars>>

Next == EditPost \/ MovePostsRoot \/ RunSync

Spec == Init /\ [][Next]_vars

(***************************************************************************)
(* Vocabulary of the claims about sync                                     *)
(***************************************************************************)
\* The post folders of content c that sync reads as published.
Published(c) ==
    {f \in Folders : /\ c.root
                     /\ c.posts[f].present
                     /\ c.posts[f].metaFile = "ok"
                     /\ c.posts[f].meta.status = "published"}

\* The post folders of c that sync reads and skips as not published.
Unpublished(c) ==
    {f \in Folders : /\ c.root
                     /\ c.posts[f].present
                     /\ c.posts[f].metaFile = "ok"
                     /\ c.posts[f].meta.status # "published"}

\* title, slug, date present, tags an array, date of the form YYYY-MM-DD.
ValidMeta(meta) ==
    /\ meta.title # ""
    /\ meta.slug # ""
    /\ meta.tags.isArray
    /\ meta.date \in {DateOk, DateOther}

PublishedValid(c) == {f \in Published(c) : ValidMeta(c.posts[f].meta)}
PublishedInvalid(c) == {f \in Published(c) : ~ValidMeta(c.posts[f].meta)}

\* No two published posts of c share a slug.
DistinctSlugs(c) ==
    \A f, g \in Published(c) :
        f # g => c.posts[f].meta.slug # c.posts[g].meta.slug

BlogNames(o) == IF o.blog.present THEN DOMAIN o.blog.files ELSE {}
AssetDirNames(o) == IF o.static.present THEN DOMAIN o.static.dirs ELSE {}

\* Post p has its blog file <date>-<slug>.md and its asset directory <slug>,
\* the directory equal to the post's source assets, file for file.
HasArtifacts(p, o) ==
    /\ <<p.meta.date, "-", p.meta.slug, ".md">> \in BlogNames(o)
    /\ p.meta.slug \in AssetDirNames(o)
    /\ p.assets.present
    /\ o.static.dirs[p.meta.slug] = p.assets

\* Some step of a run over c raises: an unreadable meta.json, or a published
\* post with invalid metadata, no README.md or no assets directory.
Raises(c) ==
    /\ c.root
    /\ \E f \in Folders :
          LET p == c.posts[f]
          IN  /\ p.present
              /\ \/ p.metaFile # "ok"
                 \/ /\ p.meta.status = "published"
                    /\ \/ ~ValidMeta(p.meta)
                       \/ ~p.readme.present
                       \/ ~p.assets.present

(***************************************************************************)
(* C1 (as claimed): when a published post fails validation, the run exits  *)
(* non-zero and the generated output is as the prior successful run left   *)
(* it.  Stated for a failing run that follows a successful one.            *)
(***************************************************************************)
C1_FailedRunKeepsPriorOutput ==
    (runs >= 2 /\ prevExit = 0 /\ PublishedInvalid(ranOn) # {})
        => (exitCode = 1 /\ out = before)

(***************************************************************************)
(* C2 (as claimed): after a successful run, a post that is not published   *)
(* has no blog file <date>-<slug>.md and no asset directory <slug>.        *)
(* Stated for posts whose slug no published post uses, which the claim     *)
(* covers.                                                                 *)
(***************************************************************************)
C2_UnpublishedHasNoArtifact ==
    (runs >= 1 /\ exitCode = 0) =>
        \A f \in Unpublished(ranOn) :
            LET meta == ranOn.posts[f].meta
            IN  (/\ meta.slug # ""
                 /\ \A g \in Published(ranOn) : ranOn.posts[g].meta.slug # meta.slug)
                => /\ <<meta.date, "-", meta.slug, ".md">> \notin BlogNames(out)
                   /\ meta.slug \notin AssetDirNames(out)

(***************************************************************************)
(* C3 (as claimed): after a successful run the generated tree is a         *)
(* function of the content alone: it is the tree the same run leaves when  *)
(* it starts from empty output.                                            *)
(***************************************************************************)
C3_OutputIsFunctionOfContent ==
    (runs >= 1 /\ exitCode = 0) => out = Sync(ranOn, FreshOut).out

(***************************************************************************)
(* C4 (as claimed): a run produces, for every published post with valid    *)
(* metadata, its blog file and its asset directory, and as many blog files *)
(* as there are such posts.                                                *)
(***************************************************************************)
C4_EveryValidPostIsSynced ==
    runs >= 1 =>
        /\ \A f \in PublishedValid(ranOn) : HasArtifacts(ranOn.posts[f], out)
        /\ Cardinality(BlogNames(out)) = Cardinality(PublishedValid(ranOn))

(***************************************************************************)
(* C4 (amended): a run that succeeds over published posts with pairwise    *)
(* distinct slugs produces, for every published post, its blog file and    *)
(* its asset directory equal to the source assets, and as many blog files  *)
(* as there are published posts.                                           *)
(***************************************************************************)
C4_SuccessfulRunSyncsEveryPost ==
    (runs >= 1 /\ exitCode = 0 /\ DistinctSlugs(ranOn)) =>
        /\ \A f \in Published(ranOn) : HasArtifacts(ranOn.posts[f], out)
        /\ Cardinality(BlogNames(out)) = Cardinality(Published(ranOn))

C4_Witness ==
    /\ runs >= 1 /\ exitCode = 0 /\ DistinctSlugs(ranOn)
    /\ Published(ranOn) = Folders
    /\ \E f \in Folders : ranOn.posts[f].assets = AssetsNested
    /\ \A f \in Folders : HasArtifacts(ranOn.posts[f], out)
    /\ Cardinality(BlogNames(out)) = 2

(***************************************************************************)
(* C7: a run over the content the run before it read leaves the output as  *)
(* that run left it.                                                       *)
(***************************************************************************)
C7_SecondRunSameOutput ==
    (runs >= 2 /\ prevRanOn = ranOn) => out = before

\* Two runs over the same content, the first of which started from the
\* output of a run over other content and changed it.
C7_Witness ==
    /\ runs = 3 /\ prevRanOn = ranOn /\ exitCode = 0
    /\ out = before
    /\ BlogNames(out) # {}
    /\ AssetDirNames(out) # {}
    /\ out # Sync(InitContent, FreshOut).out

(***************************************************************************)
(* C8: the exit code is 0 exactly when no step raised, and then the count  *)
(* of published posts is reported; it is 1 when a step raised, and then no *)
(* count is reported.                                                      *)
(***************************************************************************)
C8_ExitCodeAndCount ==
    runs >= 1 =>
        /\ exitCode = (IF Raises(ranOn) THEN 1 ELSE 0)
        /\ exitCode = 0 => (reported = <<Cardinality(Published(ranOn))>> /\ errors = 0)
        /\ exitCode = 1 => (reported = <<>> /\ errors = 1)

\* A run that failed in the write loop (a published post without assets),
\* after a run that succeeded.
C8_Witness ==
    /\ runs >= 2 /\ prevExit = 0 /\ exitCode = 1 /\ reported = <<>>
    /\ PublishedInvalid(ranOn) = {}
    /\ \E f \in Published(ranOn) : ~ranOn.posts[f].assets.present

(***************************************************************************)
(* The page-view shim: the effect of Root, over one mount of the component *)
(***************************************************************************)
Paths == {"/a", "/b"}
PageTitles == {"Home", "Blog"}
\* useRef<string | null>(null): no path is the empty string.
NoPath == ""

\* An effect without the comparison: it never returns early.
ShouldSkipNever(last, path) == FALSE

\* if (lastPathRef.current === path) return;
ShouldSkip(last, path) == last = path

\* An effect that forgets the assignment to lastPathRef.current.
RecordNothing(last, path) == last

\* An effect that records the path only when the callback is defined, so
\* that a path seen without the callback is reported on its next event.
RecordWhenTracked(last, path) == IF tracker THEN path ELSE last

\* lastPathRef.current = path;
Record(last, path) == path

\* window.__trackPageView(path, document.title), without the `?.`: a
\* TypeError when the function is undefined.
TrackPageViewUnguarded(defined, made, path, docTitle) ==
    IF defined
    THEN [threw |-> FALSE, calls |-> Append(made, <<path, docTitle>>)]
    ELSE [threw |-> TRUE, calls |-> made]

\* window.__trackPageView?.(path, document.title)
TrackPageView(defined, made, path, docTitle) ==
    IF defined
    THEN [threw |-> FALSE, calls |-> Append(made, <<path, docTitle>>)]
    ELSE [threw |-> FALSE, calls |-> made]

\* The body of the effect, run with location.pathname = path.
Effect(path) ==
    /\ events' = Append(events, [path |-> path, title |-> title, tracked |-> tracker])
    /\ IF ShouldSkip(lastPathRef, path)
       THEN UNCHANGED <<lastPathRef, calls, callEvent, threw>>
       ELSE LET tracked == TrackPageView(tracker, calls, path, title)
            IN  /\ lastPathRef' = Record(lastPathRef, path)
                /\ calls' = tracked.calls
                /\ threw' = tracked.threw
                /\ callEvent' = IF Len(tracked.calls) > Len(calls)
                                THEN Append(callEvent, Len(events) + 1)
                                ELSE callEvent

SyncIdle ==
    /\ content = InitContent /\ out = FreshOut
    /\ exitCode = 0 /\ reported = <<>> /\ errors = 0
    /\ runs = 0 /\ edits = 0
    /\ ranOn = InitContent /\ before = FreshOut
    /\ prevExit = 0 /\ prevRanOn = InitContent

\* The component is mounted on some page; its first effect has not run.
InitShim ==
    /\ pathname \in Paths
    /\ lastPathRef = NoPath
    /\ tracker \in BOOLEAN
    /\ title \in PageTitles
    /\ calls = <<>> /\ callEvent = <<>> /\ events = <<>>
    /\ threw = FALSE
    /\ SyncIdle /\ RewriteIdle /\ ConfigIdle

\* A client-side navigation to another path, after the mount's effect: the
\* effect's dependency changed, so the effect runs.
Navigate ==
    /\ ~threw /\ Len(events) < MaxEvents
    /\ events # <<>>
    /\ \E p \in Paths \ {pathname} :
          /\ pathname' = p
          /\ Effect(p)
    /\ UNCHANGED <<tracker, title>>
    /\ UNCHANGED <<syncVars, rwVars, cfgVars>>

\* The effect runs for the path the page is on: after the mount, or again
\* for an unchanged path (a re-render that re-runs effects).
Rerender ==
    /\ ~threw /\ Len(events) < MaxEvents
    /\ Effect(pathname)
    /\ UNCHANGED <<pathname, tracker, title>>
    /\ UNCHANGED <<syncVars, rwVars, cfgVars>>

\* The analytics bootstrap defines window.__trackPageView, or it is removed.
SetTracker ==
    /\ ~threw
    /\ tracker' = ~tracker
    /\ UNCHANGED <<pathname, lastPathRef, title, calls, callEvent, events, threw>>
    /\ UNCHANGED <<syncVars, rwVars, cfgVars>>

\* The page sets document.title.
SetTitle ==
    /\ ~threw
    /\ \E t \in PageTitles \ {title} : title' = t
    /\ UNCHANGED <<pathname, lastPathRef, tracker, calls, callEvent, events, threw>>
    /\ UNCHANGED <<syncVars, rwVars, cfgVars>>

\* The component is mounted anew: a new ref, and a new history.
Remount ==
    /\ ~threw
    /\ events # <<>>
    /\ lastPathRef' = NoPath
    /\ calls' = <<>> /\ callEvent' = <<>> /\ events' = <<>>
    /\ UNCHANGED <<pathname, tracker, title, threw>>
    /\ UNCHANGED <<syncVars, rwVars, cfgVars>>

NextShim == Navigate \/ Rerender \/ SetTracker \/ SetTitle \/ Remount

SpecShim == InitShim /\ [][NextShim]_vars

(***************************************************************************)
(* Vocabulary of the claims about the shim                                 *)
(***************************************************************************)
\* The events that open a run of consecutive events with equal paths.
RunStarts ==
    SelectSeq([i \in 1..Len(events) |-> i],
              LAMBDA i : i = 1 \/ events[i].path # events[i - 1].path)

EventPaths == [i \in 1..Len(events) |-> events[i].path]
CallPaths == [i \in 1..Len(calls) |-> calls[i][1]]

(***************************************************************************)
(* C5: within one mount and with the callback defined at every change      *)
(* event, the invocations are the events' paths with runs of equal paths   *)
(* collapsed to their first event, each with the title of that moment.     *)
(***************************************************************************)
C5_CallsAreCollapsedPaths ==
    (\A i \in 1..Len(events) : events[i].tracked) =>
        calls = [k \in 1..Len(RunStarts) |->
                    <<events[RunStarts[k]].path, events[RunStarts[k]].title>>]

\* The spec's example: /a, /a, /b, /b, /a gives /a, /b, /a.
C5_Witness ==
    /\ EventPaths = <<"/a", "/a", "/b", "/b", "/a">>
    /\ \A i \in 1..Len(events) : events[i].tracked
    /\ CallPaths = <<"/a", "/b", "/a">>
    /\ calls[1][2] # calls[2][2]

(***************************************************************************)
(* C6 (as claimed): no path is passed to the callback twice.               *)
(***************************************************************************)
C6_NoPathTwice ==
    \A i, j \in 1..Len(calls) : i # j => calls[i][1] # calls[j][1]

(***************************************************************************)
(* C6 (amended): within one mount the callback is invoked at most once per *)
(* run of consecutive change events with the same path: an event makes at  *)
(* most one invocation, and between two invocations with the same path     *)
(* there is a change event with another path.                              *)
(***************************************************************************)
C6_OncePerRunOfEqualPaths ==
    \A i, j \in 1..Len(calls) :
        i < j =>
            /\ callEvent[i] < callEvent[j]
            /\ calls[i][1] = calls[j][1] =>
                  \E k \in (callEvent[i] + 1)..(callEvent[j] - 1) :
                      events[k].path # calls[i][1]

C6_Witness ==
    /\ EventPaths = <<"/a", "/a", "/b", "/a", "/a">>
    /\ CallPaths = <<"/a", "/b", "/a">>
    /\ callEvent = <<1, 3, 4>>

(***************************************************************************)
(* C9: a change event with no callback defined raises nothing, invokes     *)
(* nothing and changes nothing a page can observe (the invocations, the    *)
(* document title, the callback itself).                                   *)
(***************************************************************************)
C9_NoTrackerNoEffect ==
    [][(Len(events') > Len(events) /\ ~tracker) =>
          /\ calls' = calls
          /\ ~threw'
          /\ title' = title
          /\ tracker' = tracker]_vars

\* A change event to a new path was handled with no callback defined.
C9_Witness ==
    /\ Len(events) >= 2
    /\ ~events[Len(events)].tracked
    /\ events[Len(events)].path # events[Len(events) - 1].path
    /\ lastPathRef = events[Len(events)].path
    /\ ~threw

(***************************************************************************)
(* rewriteAssetPaths as a pure function of bounded bodies                  *)
(***************************************************************************)
Tokens == {AssetsPrefix, <<"x">>, <<")">>, <<" ">>}
BodiesUpTo(n) == UNION {[1..k -> Tokens] : k \in 0..n}

InitRewrite ==
    /\ rwBody \in BodiesUpTo(MaxLen)
    /\ rwSlug \in Slugs
    /\ rwOut = <<>>
    /\ rwDone = FALSE
    /\ SyncIdle /\ ShimIdle /\ ConfigIdle

Rewrite ==
    /\ ~rwDone
    /\ rwOut' = RewriteAssetPaths(rwBody, rwSlug)
    /\ rwDone' = TRUE
    /\ UNCHANGED <<rwBody, rwSlug>>
    /\ UNCHANGED <<syncVars, shimVars, cfgVars>>

NextRewrite == Rewrite

SpecRewrite == InitRewrite /\ [][NextRewrite]_vars

\* An occurrence of ./assets/<filename> starts at token i of body: the
\* prefix, followed by a non-empty run of non-whitespace characters.
IsOccurrence(body, i) ==
    /\ body[i] = AssetsPrefix
    /\ i < Len(body)
    /\ ~IsSpace(body[i + 1])

(***************************************************************************)
(* C10 (as claimed): every occurrence of ./assets/<filename> in the body   *)
(* is replaced by /posts/<slug>/<filename>, and the text outside the       *)
(* occurrences is unchanged: the rewritten body is the body with the       *)
(* prefix of every occurrence replaced.  Stated for the bodies in which no *)
(* prefix directly follows another, which the claim covers.                *)
(***************************************************************************)
C10_EveryOccurrenceRewritten ==
    (/\ rwDone
     /\ \A i \in 1..(Len(rwBody) - 1) :
           ~(rwBody[i] = AssetsPrefix /\ rwBody[i + 1] = AssetsPrefix)) =>
        rwOut = [i \in 1..Len(rwBody) |->
                    IF IsOccurrence(rwBody, i) THEN PostsPrefix(rwSlug) ELSE rwBody[i]]

(***************************************************************************)
(* C11: when the posts root does not exist the run succeeds with exit code *)
(* 0 and a reported count of 0, the blog directory exists and is empty,    *)
(* and the static assets root exists with the contents it had before.      *)
(***************************************************************************)
C11_AbsentRootIsZeroPosts ==
    (runs >= 1 /\ ~ranOn.root) =>
        /\ exitCode = 0
        /\ reported = <<0>>
        /\ errors = 0
        /\ out.blog = EmptyDir
        /\ out.static.present
        /\ out.static.files = before.static.files
        /\ out.static.dirs = before.static.dirs

\* A run without posts root, over output that held blog files and asset
\* directories.
C11_Witness ==
    /\ runs >= 1 /\ ~ranOn.root
    /\ BlogNames(before) # {}
    /\ AssetDirNames(before) # {}
    /\ exitCode = 0 /\ reported = <<0>>
    /\ AssetDirNames(out) = AssetDirNames(before)

(***************************************************************************)
(* C13: in a run where some published post fails validation, nothing is    *)
(* written or cleared for any post, valid posts enumerated before the      *)
(* invalid one included: the run fails, the blog directory ends empty and  *)
(* the contents of the static assets root are as before the run.           *)
(***************************************************************************)
C13_ValidationPrecedesWrites ==
    (runs >= 1 /\ PublishedInvalid(ranOn) # {}) =>
        /\ exitCode = 1
        /\ out.blog = EmptyDir
        /\ out.static.present
        /\ out.static.files = before.static.files
        /\ out.static.dirs = before.static.dirs

\* The first folder is a valid published post with other assets than the
\* output holds for its slug, the second fails validation.
C13_Witness ==
    /\ runs >= 1
    /\ "p1" \in PublishedValid(ranOn)
    /\ "p2" \in PublishedInvalid(ranOn)
    /\ ranOn.posts["p1"].assets.present
    /\ ranOn.posts["p1"].meta.slug \in AssetDirNames(before)
    /\ before.static.dirs[ranOn.posts["p1"].meta.slug] # ranOn.posts["p1"].assets
    /\ out.blog = EmptyDir
    /\ out.static = before.static

(***************************************************************************)
(* The site configuration: docusaurus.config.ts loads .env and .env.local  *)
(* into process.env and injects the analytics script when there is a       *)
(* token.  A line of an env file is a comment or an assignment that the    *)
(* line pattern matched, with its key and the raw text after the `=`.      *)
(***************************************************************************)
MaxLines == 1

CommentLine == [kind |-> "comment", key |-> "", raw |-> <<>>]
Assign(key, raw) == [kind |-> "assign", key |-> key, raw |-> raw]
RawValues ==
    { <<>>,
      <<"t">>,
      <<"u">>,
      <<"\"", "t", "\"">>,
      <<"'", "t", "'">>,
      <<"\"", "\"">>,
      <<"t", " ", "#", "c">> }
EnvLines ==
    {CommentLine, Assign("OTHER", <<"t">>)}
        \cup {Assign("MIXPANEL_TOKEN", r) : r \in RawValues}
EnvFiles ==
    {NoFile} \cup {[present |-> TRUE, lines |-> l] :
                      l \in UNION {[1..n -> EnvLines] : n \in 0..MaxLines}}

\* value.startsWith(q) && value.endsWith(q)
Quoted(value, q) ==
    Len(value) >= 1 /\ value[1] = q /\ value[Len(value)] = q

\* value.replace(/\s+#.*$/u, ''): cut at the first whitespace whose run of
\* whitespace is followed by a `#`.
RECURSIVE StripComment(_, _)
StripComment(value, i) ==
    IF i > Len(value) THEN value
    ELSE IF value[i] = " "
            /\ \E j \in i..(Len(value) - 1) :
                  /\ \A k \in i..j : value[k] = " "
                  /\ value[j + 1] = "#"
         THEN SubSeq(value, 1, i - 1)
         ELSE StripComment(value, i + 1)

\* The value of an assignment: the quotes taken off a quoted raw value, the
\* trailing comment taken off any other.
EnvValue(rawValue) ==
    IF Quoted(rawValue, "\"") \/ Quoted(rawValue, "'")
    THEN SubSeq(rawValue, 2, Len(rawValue) - 1)
    ELSE StripComment(rawValue, 1)

\* The loop of loadEnvFile over the lines of a file.
RECURSIVE LoadLines(_, _, _)
LoadLines(env, lines, override) ==
    IF lines = <<>> THEN env
    ELSE LET line == Head(lines)
         IN  IF line.kind # "assign" THEN LoadLines(env, Tail(lines), override)
             ELSE IF env[line.key].defined /\ ~override
             THEN LoadLines(env, Tail(lines), override)
             ELSE LoadLines([env EXCEPT ![line.key] = Defined(EnvValue(line.raw))],
                            Tail(lines), override)

\* loadEnvFile(filePath, override): nothing when the file does not exist.
LoadEnvFile(env, file, override) ==
    IF ~file.present THEN env ELSE LoadLines(env, file.lines, override)

\* The analytics script tag: mixpanel.init(<token>, ...).
ScriptTag(token) ==
    [tagName |-> "script", type |-> "text/javascript", init |-> token]

\* headTags that tests the token against undefined only.
HeadTagsWhenDefined(mixpanelToken) ==
    IF mixpanelToken.defined THEN <<ScriptTag(mixpanelToken.value)>> ELSE <<>>

\* headTags: mixpanelToken ? [script] : []  (an empty string is falsy)
HeadTags(mixpanelToken) ==
    IF mixpanelToken.defined /\ mixpanelToken.value # <<>>
    THEN <<ScriptTag(mixpanelToken.value)>>
    ELSE <<>>

InitConfig ==
    /\ procEnv \in {[NoEnv EXCEPT !["MIXPANEL_TOKEN"] = v] :
                       v \in {Undefined, Defined(<<>>), Defined(<<"e">>)}}
    /\ envFile \in EnvFiles
    /\ envLocalFile \in EnvFiles
    /\ headTags = <<>>
    /\ cfgDone = FALSE
    /\ SyncIdle /\ ShimIdle /\ RewriteIdle

\* The configuration module is evaluated at build time.
LoadConfig ==
    /\ ~cfgDone
    /\ LET loaded == LoadEnvFile(LoadEnvFile(procEnv, envFile, FALSE),
                                 envLocalFile, TRUE)
       IN  /\ procEnv' = loaded
           /\ headTags' = HeadTags(loaded["MIXPANEL_TOKEN"])
    /\ cfgDone' = TRUE
    /\ UNCHANGED <<envFile, envLocalFile>>
    /\ UNCHANGED <<syncVars, shimVars, rwVars>>

NextConfig == LoadConfig

SpecConfig == InitConfig /\ [][NextConfig]_vars

(***************************************************************************)
(* C12: once the environment, .env and .env.local are loaded, headTags is  *)
(* empty when MIXPANEL_TOKEN is undefined or empty, and otherwise holds    *)
(* exactly one script tag, initialised with that token.                    *)
(***************************************************************************)
C12_ScriptOnlyWithToken ==
    cfgDone =>
        LET token == procEnv["MIXPANEL_TOKEN"]
        IN  IF ~token.defined \/ token.value = <<>>
            THEN headTags = <<>>
            ELSE /\ Len(headTags) = 1
                 /\ headTags[1].tagName = "script"
                 /\ headTags[1].init = token.value

\* .env.local overrode a token with an empty one: no script is injected.
C12_Witness ==
    /\ cfgDone
    /\ envFile.present
    /\ envFile.lines = <<Assign("MIXPANEL_TOKEN", <<"t">>)>>
    /\ envLocalFile.present
    /\ envLocalFile.lines = <<Assign("MIXPANEL_TOKEN", <<"\"", "\"">>)>>
    /\ procEnv["MIXPANEL_TOKEN"] = Defined(<<>>)
    /\ headTags = <<>>

(***************************************************************************)
(* Vocabulary of the claims about the write loop                           *)
(***************************************************************************)
\* Every post folder of c is read without an error: each meta.json parses
\* and each published post has valid metadata and a README.md.
ReadsClean(c) ==
    /\ c.root
    /\ \A f \in Folders : c.posts[f].present => c.posts[f].metaFile = "ok"
    /\ \A f \in Published(c) : ValidMeta(c.posts[f].meta) /\ c.posts[f].readme.present

\* The published posts of c in the order the write loop takes them.
WriteOrder(c) == SelectSeq(FolderOrder, LAMBDA f : f \in Published(c))

BlogName(p) == <<p.meta.date, "-", p.meta.slug, ".md">>

(***************************************************************************)
(* C14: when the k-th published post of the write loop is the first        *)
(* without an assets directory, the run exits 1 and leaves partial output: *)
(* the posts before k have their blog file and asset directory, post k has *)
(* its blog file and an empty asset directory, and the posts after k have  *)
(* no blog file.  Slugs are unique, as the data model has them.            *)
(***************************************************************************)
C14_PartialOutputAtFailure ==
    (runs >= 1 /\ ReadsClean(ranOn) /\ DistinctSlugs(ranOn)) =>
        LET order == WriteOrder(ranOn)
            post(i) == ranOn.posts[order[i]]
        IN  \A k \in 1..Len(order) :
                (/\ ~post(k).assets.present
                 /\ \A i \in 1..(k - 1) : post(i).assets.present)
                => /\ exitCode = 1
                   /\ \A i \in 1..(k - 1) : HasArtifacts(post(i), out)
                   /\ BlogName(post(k)) \in BlogNames(out)
                   /\ post(k).meta.slug \in AssetDirNames(out)
                   /\ out.static.dirs[post(k).meta.slug] = EmptyDir
                   /\ \A i \in (k + 1)..Len(order) :
                          BlogName(post(i)) \notin BlogNames(out)

\* The first of two published posts has no assets directory: its blog file
\* is written over an emptied asset directory that the run before filled,
\* and the second post gets nothing.
C14_Witness ==
    /\ runs >= 2 /\ prevExit = 0 /\ exitCode = 1
    /\ ReadsClean(ranOn) /\ DistinctSlugs(ranOn)
    /\ Published(ranOn) = Folders
    /\ ~ranOn.posts["p1"].assets.present
    /\ ranOn.posts["p2"].assets.present
    /\ before.static.dirs[ranOn.posts["p1"].meta.slug] # EmptyDir
    /\ BlogNames(out) = {BlogName(ranOn.posts["p1"])}
    /\ out.static.dirs[ranOn.posts["p1"].meta.slug] = EmptyDir

(***************************************************************************)
(* C15: a post that is not published and whose meta.json parses never      *)
(* aborts the run, whatever its fields, date or body file: the run's exit  *)
(* code and output are those of the same run with that post folder absent. *)
(***************************************************************************)
C15_UnpublishedIsAsAbsent ==
    runs >= 1 =>
        \A f \in Unpublished(ranOn) :
            LET without == Sync([ranOn EXCEPT !.posts[f].present = FALSE], before)
            IN  /\ out = without.out
                /\ exitCode = (IF without.err THEN 1 ELSE 0)

\* A draft with an invalid date and no body file, in a run that succeeds
\* and syncs the published post next to it.
C15_Witness ==
    /\ runs >= 1 /\ exitCode = 0
    /\ "p2" \in Unpublished(ranOn)
    /\ ranOn.posts["p2"].meta.date = DateBad
    /\ ~ranOn.posts["p2"].readme.present
    /\ "p1" \in Published(ranOn)
    /\ HasArtifacts(ranOn.posts["p1"], out)

(***************************************************************************)
(* C16: after a successful run, the directory <slug> of each published     *)
(* post holds exactly the files and directories of the post's source       *)
(* assets: nothing an earlier run copied there survives once it is gone    *)
(* from the source.  Slugs are unique, as the data model has them.         *)
(***************************************************************************)
C16_NoOrphanedAssetFiles ==
    (runs >= 1 /\ exitCode = 0 /\ DistinctSlugs(ranOn)) =>
        \A f \in Published(ranOn) :
            LET p == ranOn.posts[f]
            IN  /\ p.meta.slug \in AssetDirNames(out)
                /\ out.static.dirs[p.meta.slug].files = p.assets.files
                /\ out.static.dirs[p.meta.slug].dirs = p.assets.dirs
                /\ p.meta.slug \in AssetDirNames(before) =>
                      \A n \in DOMAIN before.static.dirs[p.meta.slug].files :
                          n \notin DOMAIN p.assets.files =>
                              n \notin DOMAIN out.static.dirs[p.meta.slug].files

\* diagram.png, copied by the run before, was renamed chart.png in the
\* source: the directory now holds chart.png alone.
C16_Witness ==
    /\ runs >= 2 /\ prevExit = 0 /\ exitCode = 0 /\ DistinctSlugs(ranOn)
    /\ "p1" \in Published(ranOn)
    /\ prevRanOn.posts["p1"].assets = AssetsOne
    /\ ranOn.posts["p1"].assets = AssetsRenamed
    /\ ranOn.posts["p1"].meta.slug = prevRanOn.posts["p1"].meta.slug
    /\ "diagram.png" \in DOMAIN before.static.dirs[ranOn.posts["p1"].meta.slug].files
    /\ DOMAIN out.static.dirs[ranOn.posts["p1"].meta.slug].files = {"chart.png"}

(***************************************************************************)
(* C17: the shim neither queues nor retries.  Every change event records   *)
(* its path as the last seen, callback or no callback; so an invocation    *)
(* for path p at an event that follows any earlier event for p, reported   *)
(* or not, has an event for another path between the two.                  *)
(***************************************************************************)
C17_NoQueueNoRetry ==
    /\ events # <<>> => lastPathRef = events[Len(events)].path
    /\ \A m \in 1..Len(callEvent) :
          \A i \in 1..(callEvent[m] - 1) :
              events[i].path = events[callEvent[m]].path =>
                  \E k \in (i + 1)..(callEvent[m] - 1) :
                      events[k].path # events[i].path

\* /a with no callback, /a again with the callback defined (nothing is
\* invoked), then /b and back to /a: only now is /a reported.
C17_Witness ==
    /\ EventPaths = <<"/a", "/a", "/b", "/a">>
    /\ ~events[1].tracked
    /\ \A i \in 2..4 : events[i].tracked
    /\ callEvent = <<3, 4>>
    /\ CallPaths = <<"/b", "/a">>

============================================================================
